---- MODULE Spec2Model ----
(***************************************************************************)
(* Model of the `covers` procedural macros (src/covers/src/lib.rs):        *)
(* `mocked` (dispatcher rewriter), `mock` (visibility marker) and their    *)
(* helpers parse_params, make_public, parse_args, parse_one_arg, cmp.      *)
(*                                                                         *)
(* Text (Rust String / &str) is a sequence of one-character strings.       *)
(* A token (proc_macro::TokenTree) is a record                             *)
(*   [kind, text, delim, stream]                                           *)
(* kind \in {"Ident","Punct","Literal","Group"}; text is the token's text  *)
(* for the first three kinds; delim and stream are the delimiter and the   *)
(* nested token sequence of a Group.  Spans are not modelled.              *)
(***************************************************************************)
EXTENDS Integers, Sequences, FiniteSets, TLC

\* ------------------------------------------------------------------ bounds
\* longest arbitrary top-level token sequence handed to the macros
MaxTokens == 3
\* longest token sequence inside a function's parameter group
MaxParamTokens == 3
\* number of text pieces an invocation argument text is built from
MaxArgPieces == 5

\* ------------------------------------------------------------------ text
s_fn == <<"f", "n">>
s_pub == <<"p", "u", "b">>
s_self == <<"s", "e", "l", "f">>
s_selfComma == <<"s", "e", "l", "f", ",">>
s_SelfColons == <<"S", "e", "l", "f", ":", ":">>
s_scope == <<"s", "c", "o", "p", "e">>
s_impl == <<"i", "m", "p", "l">>
s_crate == <<"c", "r", "a", "t", "e">>
s_foo == <<"f", "o", "o">>
s_commaSpace == <<",", " ">>

UpperCase == <<"A","B","C","D","E","F","G","H","I","J","K","L","M",
               "N","O","P","Q","R","S","T","U","V","W","X","Y","Z">>
LowerCase == <<"a","b","c","d","e","f","g","h","i","j","k","l","m",
               "n","o","p","q","r","s","t","u","v","w","x","y","z">>

\* char::to_lowercase on the ASCII range
to_lowercase_char(c) ==
    IF \E i \in 1..26 : UpperCase[i] = c
    THEN LowerCase[CHOOSE i \in 1..26 : UpperCase[i] = c]
    ELSE c

\* str::to_lowercase
to_lowercase(s) == [i \in 1..Len(s) |-> to_lowercase_char(s[i])]

is_whitespace(c) == c \in {" ", "\t", "\n", "\r"}

RECURSIVE trim_start(_)
trim_start(s) ==
    IF s = <<>> THEN <<>>
    ELSE IF is_whitespace(Head(s)) THEN trim_start(Tail(s))
    ELSE s

RECURSIVE trim_end(_)
trim_end(s) ==
    IF s = <<>> THEN <<>>
    ELSE IF is_whitespace(s[Len(s)]) THEN trim_end(SubSeq(s, 1, Len(s) - 1))
    ELSE s

\* str::trim
trim(s) == trim_end(trim_start(s))

\* str::split(char): n separators give n+1 pieces; the empty text gives <<"">>
RECURSIVE split(_, _)
split(s, c) ==
    IF \A i \in 1..Len(s) : s[i] # c THEN <<s>>
    ELSE LET i == CHOOSE k \in 1..Len(s) :
                     s[k] = c /\ \A j \in 1..(k - 1) : s[j] # c
         IN  <<SubSeq(s, 1, i - 1)>> \o split(SubSeq(s, i + 1, Len(s)), c)

\* str::starts_with
starts_with(s, p) == Len(s) >= Len(p) /\ SubSeq(s, 1, Len(p)) = p

\* [String]::join
RECURSIVE join(_, _)
join(strs, sep) ==
    IF strs = <<>> THEN <<>>
    ELSE IF Len(strs) = 1 THEN strs[1]
    ELSE strs[1] \o sep \o join(Tail(strs), sep)

\* ------------------------------------------------------------------ tokens
Ident(t) == [kind |-> "Ident", text |-> t, delim |-> "None", stream |-> <<>>]
Punct(t) == [kind |-> "Punct", text |-> t, delim |-> "None", stream |-> <<>>]
Group(d, ts) == [kind |-> "Group", text |-> <<>>, delim |-> d, stream |-> ts]

open_delim(d) ==
    IF d = "Parenthesis" THEN <<"(">> ELSE IF d = "Brace" THEN <<"{">>
    ELSE IF d = "Bracket" THEN <<"[">> ELSE <<>>
close_delim(d) ==
    IF d = "Parenthesis" THEN <<")">> ELSE IF d = "Brace" THEN <<"}">>
    ELSE IF d = "Bracket" THEN <<"]">> ELSE <<>>

\* TokenTree::to_string: the text of an identifier, punctuation mark or
\* literal; a group prints its delimiters around its tokens
RECURSIVE to_string(_)
to_string(token) ==
    IF token.kind # "Group" THEN token.text
    ELSE open_delim(token.delim)
         \o join([i \in 1..Len(token.stream) |-> to_string(token.stream[i])], <<" ">>)
         \o close_delim(token.delim)

\* ------------------------------------------------------------------ Stage
Start == 0
FnIdentFound == 1
FnNameFound == 2
FnArgsFound == 3
FnBodyFound == 4

cmp(current, expected) == current - expected

\* ------------------------------------------------------------------ helpers
\* create_name_token with the prefix put after the name
create_name_token_suffixed(prefix, token) == Ident(to_string(token) \o prefix)

create_name_token(prefix, token) == Ident(prefix \o to_string(token))

\* parse_one_arg without the receiver test
parse_one_arg_first_only(vec) == to_string(vec[1])

parse_one_arg(vec) ==
    IF to_string(vec[Len(vec)]) = s_self THEN s_self ELSE to_string(vec[1])

\* parse_args_loop without the `!vec.is_empty()` test after the loop
RECURSIVE parse_args_loop_no_empty_test(_, _, _)
parse_args_loop_no_empty_test(rest, vec, args) ==
    IF rest = <<>>
    THEN IF vec = <<>> THEN [ok |-> FALSE, val |-> <<>>]
         ELSE [ok |-> TRUE,
               val |-> join(Append(args, parse_one_arg(vec)), s_commaSpace)]
    ELSE LET token == Head(rest) IN
         IF token.kind = "Punct" /\ to_string(token) = <<",">>
         THEN IF vec = <<>> THEN [ok |-> FALSE, val |-> <<>>]
              ELSE parse_args_loop_no_empty_test(Tail(rest), <<>>,
                                                 Append(args, parse_one_arg(vec)))
         ELSE parse_args_loop_no_empty_test(Tail(rest), Append(vec, token), args)

\* the loop of parse_args over the group's tokens: vec is the pending chunk,
\* args the reduced chunks so far; panics when parse_one_arg unwraps the last
\* token of an empty chunk
RECURSIVE parse_args_loop(_, _, _)
parse_args_loop(rest, vec, args) ==
    IF rest = <<>>
    THEN [ok |-> TRUE,
          val |-> join(IF vec # <<>> THEN Append(args, parse_one_arg(vec)) ELSE args,
                       s_commaSpace)]
    ELSE LET token == Head(rest) IN
         IF token.kind = "Punct" /\ to_string(token) = <<",">>
         THEN IF vec = <<>> THEN [ok |-> FALSE, val |-> <<>>]
              ELSE parse_args_loop(Tail(rest), <<>>, Append(args, parse_one_arg(vec)))
         ELSE parse_args_loop(Tail(rest), Append(vec, token), args)

parse_args(group) ==
    IF group.stream = <<>> THEN [ok |-> TRUE, val |-> <<>>]
    ELSE parse_args_loop(group.stream, <<>>, <<>>)

is_ident(token, t) == token.kind = "Ident" /\ to_string(token) = t

\* make_public_loop with the `is_public = true` assignment left out
RECURSIVE make_public_loop_flag_lost(_, _)
make_public_loop_flag_lost(rest, is_public) ==
    IF rest = <<>> THEN <<>>
    ELSE LET token == Head(rest) IN
         IF is_ident(token, s_pub)
         THEN <<token>> \o make_public_loop_flag_lost(Tail(rest), is_public)
         ELSE IF is_ident(token, s_fn)
         THEN (IF ~is_public THEN <<Ident(s_pub)>> ELSE <<>>) \o rest
         ELSE <<token>> \o make_public_loop_flag_lost(Tail(rest), is_public)

\* make_public_loop taking a `pub` anywhere in the sequence as the visibility
RECURSIVE make_public_loop_pub_anywhere(_, _)
make_public_loop_pub_anywhere(rest, is_public) ==
    IF rest = <<>> THEN <<>>
    ELSE LET token == Head(rest) IN
         IF is_ident(token, s_pub)
         THEN <<token>> \o make_public_loop_pub_anywhere(Tail(rest), TRUE)
         ELSE IF is_ident(token, s_fn)
         THEN (IF ~is_public /\ \A i \in 1..Len(rest) : ~is_ident(rest[i], s_pub)
               THEN <<Ident(s_pub)>> ELSE <<>>) \o rest
         ELSE <<token>> \o make_public_loop_pub_anywhere(Tail(rest), is_public)

\* the loop of make_public: rest is what the iterator still holds
RECURSIVE make_public_loop(_, _)
make_public_loop(rest, is_public) ==
    IF rest = <<>> THEN <<>>
    ELSE LET token == Head(rest) IN
         IF is_ident(token, s_pub)
         THEN <<token>> \o make_public_loop(Tail(rest), TRUE)
         ELSE IF is_ident(token, s_fn)
         THEN (IF ~is_public THEN <<Ident(s_pub)>> ELSE <<>>) \o rest
         ELSE <<token>> \o make_public_loop(Tail(rest), is_public)

make_public(input) == make_public_loop(input, FALSE)

\* HashMap::insert
insert(m, k, v) == [x \in (DOMAIN m) \cup {k} |-> IF x = k THEN v ELSE m[x]]

\* options.get(k).filter(|s| *s == v).is_some()
option_is(m, k, v) == k \in DOMAIN m /\ m[k] = v

\* parse_options with `entry.len() >= 2` as the assertion
RECURSIVE parse_options_lenient(_, _)
parse_options_lenient(params, options) ==
    IF params = <<>> THEN [ok |-> TRUE, options |-> options]
    ELSE LET parts == split(Head(params), "=")
             entry == [i \in 1..Len(parts) |-> to_lowercase(trim(parts[i]))]
         IN  IF Len(entry) >= 2
             THEN parse_options_lenient(Tail(params), insert(options, entry[1], entry[2]))
             ELSE [ok |-> FALSE, options |-> options]

\* parse_options keeping the first value of a repeated key
RECURSIVE parse_options_first_wins(_, _)
parse_options_first_wins(params, options) ==
    IF params = <<>> THEN [ok |-> TRUE, options |-> options]
    ELSE LET parts == split(Head(params), "=")
             entry == [i \in 1..Len(parts) |-> to_lowercase(trim(parts[i]))]
         IN  IF Len(entry) = 2
             THEN parse_options_first_wins(Tail(params),
                      IF entry[1] \in DOMAIN options THEN options
                      ELSE insert(options, entry[1], entry[2]))
             ELSE [ok |-> FALSE, options |-> options]

\* the `for param in params` loop of parse_params
RECURSIVE parse_options(_, _)
parse_options(params, options) ==
    IF params = <<>> THEN [ok |-> TRUE, options |-> options]
    ELSE LET parts == split(Head(params), "=")
             entry == [i \in 1..Len(parts) |-> to_lowercase(trim(parts[i]))]
         IN  IF Len(entry) = 2
             THEN parse_options(Tail(params), insert(options, entry[1], entry[2]))
             ELSE [ok |-> FALSE, options |-> options]

NoParams == [reference |-> <<>>, options |-> <<>>]

\* parse_params with the reference lower-cased like the option parts
parse_params_lowercase_reference(text) ==
    LET parts == split(text, ",")
        params == [i \in 1..Len(parts) |-> trim(parts[i])]
    IN  IF params = <<>>
        THEN [err |-> "reference required", params |-> NoParams]
        ELSE LET opts == parse_options(Tail(params), <<>>) IN
             IF opts.ok
             THEN [err |-> "",
                   params |-> [reference |-> to_lowercase(trim(Head(params))),
                               options |-> opts.options]]
             ELSE [err |-> "key = value format required", params |-> NoParams]

\* err: "" on success, else the assertion that failed
parse_params(text) ==
    LET parts == split(text, ",")
        params == [i \in 1..Len(parts) |-> trim(parts[i])]
    IN  IF params = <<>>
        THEN [err |-> "reference required", params |-> NoParams]
        ELSE LET opts == parse_options(Tail(params), <<>>) IN
             IF opts.ok
             THEN [err |-> "",
                   params |-> [reference |-> trim(Head(params)),
                               options |-> opts.options]]
             ELSE [err |-> "key = value format required", params |-> NoParams]

\* ------------------------------------------------------------------ mock
\* mock returning its input in a release build
mock_output_release_keeps(debug, nopub, tokens) ==
    IF debug
    THEN IF nopub THEN tokens ELSE make_public(tokens)
    ELSE tokens

\* mock without the "no-pub" test
mock_output_ignores_no_pub(debug, nopub, tokens) ==
    IF debug THEN make_public(tokens) ELSE <<>>

\* the body of `mock`: cfg!(debug_assertions) || cfg!(test), feature "no-pub"
mock_output(debug, nopub, tokens) ==
    IF debug
    THEN IF nopub THEN tokens ELSE make_public(tokens)
    ELSE <<>>

\* ------------------------------------------------------------------ mocked
\* the guards of the match arms of the scan, in source order
arm_fn_ident(token, st) ==
    token.kind = "Ident" /\ cmp(st, FnIdentFound) < 0 /\ to_string(token) = s_fn
arm_fn_name(token, st) ==
    token.kind = "Ident" /\ cmp(st, FnIdentFound) = 0
\* the Parenthesis arm without its stage guard
arm_fn_args_unguarded(token, st) ==
    token.kind = "Group" /\ token.delim = "Parenthesis"

arm_fn_args(token, st) ==
    token.kind = "Group" /\ cmp(st, FnArgsFound) < 0 /\ token.delim = "Parenthesis"
\* the Brace arm taken only right after the argument list
arm_fn_body_after_args(token, st) ==
    token.kind = "Group" /\ cmp(st, FnArgsFound) = 0 /\ token.delim = "Brace"

arm_fn_body(token, st) ==
    token.kind = "Group" /\ cmp(st, FnBodyFound) < 0 /\ token.delim = "Brace"

\* is_impl_scope as inferred from the reconstructed argument list
scan_impl_scope(args_string) ==
    starts_with(args_string, s_selfComma) \/ args_string = s_self

\* is_impl_scope assigned from the option alone
final_impl_scope_overwritten(scanned, options) ==
    option_is(options, s_scope, s_impl)

\* is_impl_scope after the scan
final_impl_scope(scanned, options) ==
    scanned \/ option_is(options, s_scope, s_impl)

\* the arguments of format!: the holes of the emitted code template, with
\* the two return expressions composed as the template composes them
format_code(orig, sig, orig_name, mock_name, args_string, impl_scope) ==
    LET arguments == <<"(">> \o args_string \o <<")">>
        fq == IF impl_scope THEN s_SelfColons ELSE <<>>
    IN  [fn_original |-> make_public(orig),
         signature |-> sig,
         test_return |-> mock_name \o arguments,
         nontest_return |-> fq \o orig_name \o arguments]

NoCode == [fn_original |-> <<>>, signature |-> <<>>,
           test_return |-> <<>>, nontest_return |-> <<>>]

\* ------------------------------------------------------------------ inputs
SeqsUpTo(S, n) == UNION {[1..k -> S] : k \in 0..n}

RECURSIVE concat(_)
concat(ss) == IF ss = <<>> THEN <<>> ELSE Head(ss) \o concat(Tail(ss))

ParenCrate == Group("Parenthesis", <<Ident(s_crate)>>)
ParenSelf == Group("Parenthesis", <<Ident(s_self)>>)
ParenA == Group("Parenthesis", <<Ident(<<"a">>)>>)
BraceBody == Group("Brace", <<>>)

\* tokens of arbitrary top-level sequences
TopTokens ==
    {Ident(s_pub), Ident(s_fn), Ident(s_foo), ParenA, BraceBody, Punct(<<"&">>)}

\* tokens of a parameter list
ParamTokens ==
    {Ident(s_self), Ident(<<"a">>), Punct(<<",">>), Punct(<<":">>), Punct(<<"&">>)}

Visibilities ==
    {<<>>, <<Ident(s_pub)>>, <<Ident(s_pub), ParenCrate>>, <<Ident(s_pub), ParenSelf>>}

ReturnTypes == {<<>>, <<Punct(<<"-">>), Punct(<<">">>), Ident(<<"T">>)>>}

\* function items: visibility, `fn`, name, parameter group, return type, body
FunctionItems ==
    {vis \o <<Ident(s_fn), Ident(s_foo), Group("Parenthesis", ps)>> \o ret \o <<BraceBody>> :
        vis \in Visibilities, ps \in SeqsUpTo(ParamTokens, MaxParamTokens),
        ret \in ReturnTypes}

\* function items with a braced const argument in their generics:
\* fn foo<{}>(..) {}
GenericItems ==
    {<<Ident(s_fn), Ident(s_foo), Punct(<<"<">>), BraceBody, Punct(<<">">>),
       Group("Parenthesis", ps), BraceBody>> :
        ps \in {<<>>, <<Ident(<<"a">>)>>}}

TokenSeqs == SeqsUpTo(TopTokens, MaxTokens)

Inputs == TokenSeqs \cup FunctionItems \cup GenericItems

ArgPieces == {<<"m">>, <<"M">>, <<" ">>, <<",">>, <<"=">>, s_scope, s_impl}

\* invocation argument texts of the parse_params specification
ArgTexts == {concat(ps) : ps \in SeqsUpTo(ArgPieces, MaxArgPieces)}

\* invocation argument texts of the macro specification
ArgSamples ==
    { <<>>,
      <<"m">>,
      <<" ", "M", " ">> \o <<",">> \o s_scope \o <<"=">> \o s_impl,
      <<"m", ",", " ", "S", "c", "o", "p", "e", " ", "=", " ", "I", "M", "P", "L">>,
      <<"m", ",">> \o s_scope \o <<"=">> \o <<"m">>,
      <<"m", ",">> \o s_scope }

Prefixes == {<<"_">>, <<"_", "_">>, <<"_", "o", "r", "i", "g", "_">>}

\* ------------------------------------------------------------------ state
VARIABLES debug, no_pub, ORIGINAL_FUNC_PREFIX,
          pc, entry, args, input, params,
          stage, pos, original, signature,
          fn_orig_name, fn_args_string, is_impl_scope,
          code, output, output2, err

config == <<debug, no_pub, ORIGINAL_FUNC_PREFIX>>
locals == <<params, stage, pos, original, signature,
            fn_orig_name, fn_args_string, is_impl_scope>>
vars == <<debug, no_pub, ORIGINAL_FUNC_PREFIX, pc, entry, args, input, params,
          stage, pos, original, signature, fn_orig_name, fn_args_string,
          is_impl_scope, code, output, output2, err>>

InitLocals ==
    /\ params = NoParams
    /\ stage = Start
    /\ pos = 1
    /\ original = <<>>
    /\ signature = <<>>
    /\ fn_orig_name = <<>>
    /\ fn_args_string = <<>>
    /\ is_impl_scope = FALSE
    /\ code = NoCode
    /\ output = <<>>
    /\ output2 = <<>>
    /\ err = ""

Init ==
    /\ debug \in BOOLEAN
    /\ no_pub \in BOOLEAN
    /\ ORIGINAL_FUNC_PREFIX \in Prefixes
    /\ pc = "idle"
    /\ entry = ""
    /\ args = <<>>
    /\ input = <<>>
    /\ InitLocals

\* mocked, lines 105-107: the release build returns the input
mocked_release ==
    /\ pc = "idle"
    /\ \E a \in ArgSamples, i \in Inputs :
        /\ ~debug
        /\ entry' = "mocked" /\ args' = a /\ input' = i
        /\ output' = i
        /\ pc' = "done"
        /\ UNCHANGED <<config, locals, code, output2, err>>

\* mocked, lines 109-120: the arguments parse and the scan starts
mocked_begin ==
    /\ pc = "idle"
    /\ \E a \in ArgSamples, i \in Inputs :
        /\ debug
        /\ parse_params(a).err = ""
        /\ entry' = "mocked" /\ args' = a /\ input' = i
        /\ params' = parse_params(a).params
        /\ stage' = Start
        /\ pos' = 1
        /\ original' = <<>>
        /\ signature' = <<>>
        /\ fn_orig_name' = <<>>
        /\ fn_args_string' = <<>>
        /\ is_impl_scope' = FALSE
        /\ pc' = "scan"
        /\ UNCHANGED <<config, code, output, output2, err>>

\* mocked, line 109: parse_params panics
mocked_params_panic ==
    /\ pc = "idle"
    /\ \E a \in ArgSamples, i \in Inputs :
        /\ debug
        /\ parse_params(a).err # ""
        /\ entry' = "mocked" /\ args' = a /\ input' = i
        /\ pc' = "panic"
        /\ err' = parse_params(a).err
        /\ UNCHANGED <<config, locals, code, output, output2>>

scanning == pc = "scan" /\ pos <= Len(input)

\* lines 124-128
scan_fn_ident ==
    /\ scanning
    /\ arm_fn_ident(input[pos], stage)
    /\ stage' = FnIdentFound
    /\ signature' = Append(signature, input[pos])
    /\ original' = Append(original, input[pos])
    /\ pos' = pos + 1
    /\ UNCHANGED <<config, pc, entry, args, input, params, fn_orig_name,
                   fn_args_string, is_impl_scope, code, output, output2, err>>

\* lines 129-137
scan_fn_name ==
    /\ scanning
    /\ ~arm_fn_ident(input[pos], stage)
    /\ arm_fn_name(input[pos], stage)
    /\ stage' = FnNameFound
    /\ signature' = Append(signature, create_name_token(<<>>, input[pos]))
    /\ LET new_token == create_name_token(ORIGINAL_FUNC_PREFIX, input[pos]) IN
         /\ fn_orig_name' = to_string(new_token)
         /\ original' = Append(original, new_token)
    /\ pos' = pos + 1
    /\ UNCHANGED <<config, pc, entry, args, input, params,
                   fn_args_string, is_impl_scope, code, output, output2, err>>

\* lines 138-144
scan_fn_args ==
    /\ scanning
    /\ ~arm_fn_ident(input[pos], stage)
    /\ ~arm_fn_name(input[pos], stage)
    /\ arm_fn_args(input[pos], stage)
    /\ parse_args(input[pos]).ok
    /\ stage' = FnArgsFound
    /\ fn_args_string' = parse_args(input[pos]).val
    /\ is_impl_scope' = scan_impl_scope(parse_args(input[pos]).val)
    /\ signature' = Append(signature, input[pos])
    /\ original' = Append(original, input[pos])
    /\ pos' = pos + 1
    /\ UNCHANGED <<config, pc, entry, args, input, params, fn_orig_name,
                   code, output, output2, err>>

\* lines 138-140: parse_args panics after the stage is set
scan_fn_args_panic ==
    /\ scanning
    /\ ~arm_fn_ident(input[pos], stage)
    /\ ~arm_fn_name(input[pos], stage)
    /\ arm_fn_args(input[pos], stage)
    /\ ~parse_args(input[pos]).ok
    /\ stage' = FnArgsFound
    /\ pc' = "panic"
    /\ err' = "unwrap on None"
    /\ UNCHANGED <<config, entry, args, input, params, pos, original, signature,
                   fn_orig_name, fn_args_string, is_impl_scope, code, output, output2>>

\* lines 145-148
scan_fn_body ==
    /\ scanning
    /\ ~arm_fn_ident(input[pos], stage)
    /\ ~arm_fn_name(input[pos], stage)
    /\ ~arm_fn_args(input[pos], stage)
    /\ arm_fn_body(input[pos], stage)
    /\ stage' = FnBodyFound
    /\ original' = Append(original, input[pos])
    /\ pos' = pos + 1
    /\ UNCHANGED <<config, pc, entry, args, input, params, signature, fn_orig_name,
                   fn_args_string, is_impl_scope, code, output, output2, err>>

\* lines 149-154
scan_other ==
    /\ scanning
    /\ ~arm_fn_ident(input[pos], stage)
    /\ ~arm_fn_name(input[pos], stage)
    /\ ~arm_fn_args(input[pos], stage)
    /\ ~arm_fn_body(input[pos], stage)
    /\ signature' = IF cmp(stage, FnBodyFound) < 0
                    THEN Append(signature, input[pos]) ELSE signature
    /\ original' = Append(original, input[pos])
    /\ pos' = pos + 1
    /\ UNCHANGED <<config, pc, entry, args, input, params, stage, fn_orig_name,
                   fn_args_string, is_impl_scope, code, output, output2, err>>

\* lines 158-182: the scan is over, the code is composed
mocked_emit ==
    /\ pc = "scan"
    /\ pos > Len(input)
    /\ is_impl_scope' = final_impl_scope(is_impl_scope, params.options)
    /\ code' = format_code(original, signature, fn_orig_name, params.reference,
                           fn_args_string,
                           final_impl_scope(is_impl_scope, params.options))
    /\ pc' = "done"
    /\ UNCHANGED <<config, entry, args, input, params, stage, pos, original,
                   signature, fn_orig_name, fn_args_string, output, output2, err>>

\* mock, lines 208-218
mock ==
    /\ pc = "idle"
    /\ \E a \in ArgSamples, i \in Inputs :
        /\ entry' = "mock" /\ args' = a /\ input' = i
        /\ output' = mock_output(debug, no_pub, i)
        /\ pc' = "done"
        /\ UNCHANGED <<config, locals, code, output2, err>>

Next ==
    \/ mocked_release
    \/ mocked_begin
    \/ mocked_params_panic
    \/ scan_fn_ident
    \/ scan_fn_name
    \/ scan_fn_args
    \/ scan_fn_args_panic
    \/ scan_fn_body
    \/ scan_other
    \/ mocked_emit
    \/ mock

Spec == Init /\ [][Next]_vars

\* --------------------------------------------- specification: parse_params
InitParams ==
    /\ debug = TRUE
    /\ no_pub = FALSE
    /\ ORIGINAL_FUNC_PREFIX = <<"_">>
    /\ pc = "idle"
    /\ entry = "parse_params"
    /\ args \in ArgTexts
    /\ input = <<>>
    /\ InitLocals

params_ok ==
    /\ pc = "idle"
    /\ parse_params(args).err = ""
    /\ params' = parse_params(args).params
    /\ pc' = "done"
    /\ UNCHANGED <<config, entry, args, input, stage, pos, original, signature,
                   fn_orig_name, fn_args_string, is_impl_scope, code, output, output2, err>>

params_panic ==
    /\ pc = "idle"
    /\ parse_params(args).err # ""
    /\ pc' = "panic"
    /\ err' = parse_params(args).err
    /\ UNCHANGED <<config, entry, args, input, locals, code, output, output2>>

NextParams == params_ok \/ params_panic

SpecParams == InitParams /\ [][NextParams]_vars

\* --------------------------------------------- specification: make_public
InitPublic ==
    /\ debug = TRUE
    /\ no_pub = FALSE
    /\ ORIGINAL_FUNC_PREFIX = <<"_">>
    /\ pc = "idle"
    /\ entry = "make_public"
    /\ args = <<>>
    /\ input \in TokenSeqs
    /\ InitLocals

public_once ==
    /\ pc = "idle"
    /\ output' = make_public(input)
    /\ pc' = "once"
    /\ UNCHANGED <<config, entry, args, input, locals, code, output2, err>>

public_twice ==
    /\ pc = "once"
    /\ output2' = make_public(output)
    /\ pc' = "twice"
    /\ UNCHANGED <<config, entry, args, input, locals, code, output, err>>

NextPublic == public_once \/ public_twice

SpecPublic == InitPublic /\ [][NextPublic]_vars

\* --------------------------------------------- specification: parse_args
\* input holds the one parenthesis group handed to parse_args
InitArgs ==
    /\ debug = TRUE
    /\ no_pub = FALSE
    /\ ORIGINAL_FUNC_PREFIX = <<"_">>
    /\ pc = "idle"
    /\ entry = "parse_args"
    /\ args = <<>>
    /\ \E ps \in SeqsUpTo(ParamTokens, MaxParamTokens) :
          input = <<Group("Parenthesis", ps)>>
    /\ InitLocals

args_ok ==
    /\ pc = "idle"
    /\ parse_args(input[1]).ok
    /\ fn_args_string' = parse_args(input[1]).val
    /\ pc' = "done"
    /\ UNCHANGED <<config, entry, args, input, params, stage, pos, original,
                   signature, fn_orig_name, is_impl_scope, code, output, output2, err>>

args_panic ==
    /\ pc = "idle"
    /\ ~parse_args(input[1]).ok
    /\ err' = "unwrap on None"
    /\ pc' = "panic"
    /\ UNCHANGED <<config, entry, args, input, locals, code, output, output2>>

NextArgs == args_ok \/ args_panic

SpecArgs == InitArgs /\ [][NextArgs]_vars

\* ------------------------------------------------------------------ claims
\* what the claims say about a text, stated without the parser's operators
CountChar(s, c) == Cardinality({i \in 1..Len(s) : s[i] = c})

\* position of the k-th occurrence of c in s; 0 before the first, Len+1 past the last
KthChar(s, c, k) ==
    IF k = 0 THEN 0
    ELSE IF k > CountChar(s, c) THEN Len(s) + 1
    ELSE CHOOSE p \in 1..Len(s) :
            s[p] = c /\ Cardinality({q \in 1..p : s[q] = c}) = k

NumElements(text) == CountChar(text, ",") + 1

\* the k-th comma-delimited element of the text
Element(text, k) ==
    SubSeq(text, KthChar(text, ",", k - 1) + 1, KthChar(text, ",", k) - 1)

Blank(c) == c = " " \/ c = "\t" \/ c = "\n" \/ c = "\r"

\* s without its leading and trailing blanks
Stripped(s) ==
    LET solid == {i \in 1..Len(s) : ~Blank(s[i])}
    IN  IF solid = {} THEN <<>>
        ELSE SubSeq(s, CHOOSE i \in solid : \A j \in solid : i <= j,
                       CHOOSE i \in solid : \A j \in solid : i >= j)

\* the index of the function keyword, the name and the parameter group of a
\* function item
FnPos(tokens) ==
    CHOOSE i \in 1..Len(tokens) :
        /\ tokens[i] = Ident(s_fn)
        /\ \A j \in 1..(i - 1) : tokens[j] # Ident(s_fn)
NameOf(tokens) == tokens[FnPos(tokens) + 1].text
ParamsOf(tokens) == tokens[FnPos(tokens) + 2].stream

\* the parameter chunks of a parameter list, split at its commas
Comma == Punct(<<",">>)
RECURSIVE Chunks(_)
Chunks(ps) ==
    IF \A i \in 1..Len(ps) : ps[i] # Comma THEN (IF ps = <<>> THEN <<>> ELSE <<ps>>)
    ELSE LET i == CHOOSE k \in 1..Len(ps) :
                     ps[k] = Comma /\ \A j \in 1..(k - 1) : ps[j] # Comma
         IN  <<SubSeq(ps, 1, i - 1)>> \o Chunks(SubSeq(ps, i + 1, Len(ps)))

\* the first parameter is `self`, `&self` or `self: ...`
FirstParamIsReceiver(ps) ==
    /\ Chunks(ps) # <<>>
    /\ LET first == Chunks(ps)[1] IN
         /\ first # <<>>
         /\ \/ first[1] = Ident(s_self)
            \/ first = <<Punct(<<"&">>), Ident(s_self)>>

Call(name, argtext) == name \o <<"(">> \o argtext \o <<")">>

MockedDone == entry = "mocked" /\ debug /\ pc = "done"

\* C1: in a build that is neither debug nor test, mocked returns its input
\* unchanged whatever the argument text is (it never parses it, so it never
\* panics and composes no code), and mock returns the empty token sequence.
C1_ReleaseBuild ==
    /\ (~debug /\ entry = "mocked") =>
          (pc = "done" /\ output = input /\ err = "" /\ params = NoParams /\ code = NoCode)
    /\ (~debug /\ entry = "mock") => (pc = "done" /\ output = <<>>)

C1_Witness ==
    /\ ~debug /\ entry = "mocked" /\ pc = "done"
    /\ Len(input) > 0 /\ output = input
    /\ NumElements(args) = 2 /\ CountChar(Element(args, 2), "=") = 0

\* C2: parse_params fails with the "reference required" error whenever the
\* first comma-delimited, trimmed element of the argument text is empty, so a
\* returned Params record always has a non-empty reference.
C2_ReferenceRequired ==
    /\ (entry = "parse_params" /\ pc # "idle" /\ Stripped(Element(args, 1)) = <<>>) =>
          (pc = "panic" /\ err = "reference required")
    /\ (entry = "parse_params" /\ pc = "done") => params.reference # <<>>

\* C3: parse_params fails with the "key = value format required" error if and
\* only if some comma-delimited element after the first does not contain
\* exactly one '='; an element with exactly one '=' is accepted even when its
\* key or value is empty.
C3_KeyValueFormat ==
    (entry = "parse_params" /\ pc # "idle") =>
        ( (pc = "panic" /\ err = "key = value format required")
          <=> (\E k \in 2..NumElements(args) : CountChar(Element(args, k), "=") # 1) )

C3_Witness ==
    /\ entry = "parse_params" /\ pc = "done"
    /\ NumElements(args) >= 2
    /\ \E k \in 2..NumElements(args) : Stripped(Element(args, k)) = <<"=">>
    /\ <<>> \in DOMAIN params.options

\* C4: when parse_params succeeds, the reference is the first comma-delimited
\* element with its surrounding whitespace removed and nothing else changed:
\* its letter case is kept.
C4_ReferenceIsFirstElement ==
    (entry = "parse_params" /\ pc = "done") =>
        params.reference = Stripped(Element(args, 1))

C4_Witness ==
    /\ entry = "parse_params" /\ pc = "done"
    /\ Len(args) > 0 /\ args[1] = " "
    /\ \E i \in 1..Len(params.reference) : params.reference[i] = "M"
    /\ NumElements(args) >= 2

\* C5: make_public is idempotent: a second application returns what the first
\* returned and adds no further `pub`.
C5_MakePublicIdempotent ==
    (entry = "make_public" /\ pc = "twice") =>
        /\ output2 = output
        /\ Cardinality({i \in 1..Len(output2) : output2[i] = Ident(s_pub)})
             = Cardinality({i \in 1..Len(output) : output[i] = Ident(s_pub)})

C5_Witness ==
    /\ entry = "make_public" /\ pc = "twice"
    /\ Len(output) = Len(input) + 1
    /\ output2 = output

\* C6: for every input function the emitted dispatcher returns, in a test
\* build, a call of the mock reference and, otherwise, a call of the prefix
\* followed by the function's name (qualified or not), both with the same
\* reconstructed argument-list string in parentheses.
C6_DispatcherCalls ==
    (MockedDone /\ input \in FunctionItems) =>
        /\ code.test_return = Call(params.reference, fn_args_string)
        /\ code.nontest_return \in
             { Call(ORIGINAL_FUNC_PREFIX \o NameOf(input), fn_args_string),
               Call(s_SelfColons \o ORIGINAL_FUNC_PREFIX \o NameOf(input), fn_args_string) }

\* C7: the non-test call is qualified with `Self::` if and only if the
\* reconstructed argument-list string is "self" or starts with "self," or the
\* options map "scope" to "impl"; the option never clears what the scan
\* inferred.
C7_SelfQualification ==
    MockedDone =>
        LET inferred == \/ fn_args_string = s_self
                        \/ /\ Len(fn_args_string) >= 5
                           /\ SubSeq(fn_args_string, 1, 5) = s_selfComma
            forced == \E k \in DOMAIN params.options :
                          k = s_scope /\ params.options[k] = s_impl
        IN  code.nontest_return =
                Call((IF inferred \/ forced THEN s_SelfColons ELSE <<>>) \o fn_orig_name,
                     fn_args_string)

C7_Witness ==
    /\ MockedDone
    /\ fn_args_string = s_self \o <<",", " ", "a">>
    /\ s_scope \in DOMAIN params.options
    /\ params.options[s_scope] # s_impl
    /\ SubSeq(code.nontest_return, 1, 6) = s_SelfColons

\* C8: for every function whose first parameter is the receiver, the
\* reconstructed argument-list string is "self" when it is the only parameter
\* and "self, <rest>" when more follow, and the function is marked impl-scope.
C8_ReceiverFirst ==
    (MockedDone /\ input \in FunctionItems /\ FirstParamIsReceiver(ParamsOf(input))) =>
        /\ IF Len(Chunks(ParamsOf(input))) = 1
           THEN fn_args_string = s_self
           ELSE /\ Len(fn_args_string) > 6
                /\ SubSeq(fn_args_string, 1, 6) = s_self \o <<",", " ">>
        /\ is_impl_scope

\* C9: for every function with an empty parameter list the reconstructed
\* argument-list string is empty, both generated calls have the argument text
\* `()`, and the scan does not infer impl-scope.
C9_EmptyParameterList ==
    (MockedDone /\ input \in FunctionItems /\ ParamsOf(input) = <<>>) =>
        /\ fn_args_string = <<>>
        /\ code.test_return = params.reference \o <<"(", ")">>
        /\ code.nontest_return \in
             { fn_orig_name \o <<"(", ")">>, s_SelfColons \o fn_orig_name \o <<"(", ")">> }
        /\ is_impl_scope =>
             (s_scope \in DOMAIN params.options /\ params.options[s_scope] = s_impl)

\* C10: in a debug or test build mock returns make_public(input) when the
\* no-pub toggle is off and the input unchanged when it is on; either way the
\* output is the input, or the input with one `pub` put in, so no input token
\* is dropped or reordered.
C10_MockDebugBuild ==
    (entry = "mock" /\ debug /\ pc = "done") =>
        /\ no_pub => output = input
        /\ ~no_pub => output = make_public(input)
        /\ \/ output = input
           \/ \E k \in 1..Len(output) :
                /\ output[k] = Ident(s_pub)
                /\ SubSeq(output, 1, k - 1) \o SubSeq(output, k + 1, Len(output)) = input

C10_Witness ==
    /\ entry = "mock" /\ debug /\ pc = "done" /\ ~no_pub
    /\ Len(output) = Len(input) + 1
    /\ \E i \in 1..Len(input) : input[i].kind = "Group"

\* the scan of mocked has consumed every token
ScanOver == entry = "mocked" /\ debug /\ pc \in {"scan", "done"} /\ pos > Len(input)

IsBrace(token) == token.kind = "Group" /\ token.delim = "Brace"
IsParen(token) == token.kind = "Group" /\ token.delim = "Parenthesis"

\* index of the first top-level brace group, Len+1 when there is none
FirstBrace(tokens) ==
    IF \E i \in 1..Len(tokens) : IsBrace(tokens[i])
    THEN CHOOSE i \in 1..Len(tokens) :
            IsBrace(tokens[i]) /\ \A j \in 1..(i - 1) : ~IsBrace(tokens[j])
    ELSE Len(tokens) + 1

\* C11: during the scan the stage never decreases from one token to the next.
C11_StageMonotonic == [][stage' >= stage]_vars

C11_Witness ==
    /\ entry = "mocked" /\ pc = "scan"
    /\ stage = FnBodyFound
    /\ pos <= Len(input) /\ IsParen(input[pos])
    /\ fn_orig_name # <<>>

\* C12: the transition to FnArgsFound fires at most once and only on a
\* parenthesis group met after the function name was found (stage
\* FnNameFound); a parenthesis group before the function keyword or name does
\* not trigger it.
C12_ArgsAfterName ==
    [][(stage' = FnArgsFound /\ stage # FnArgsFound) =>
          (stage = FnNameFound /\ IsParen(input[pos]))]_vars

\* C13: the transition to FnBodyFound fires only on the first brace group met
\* after the argument list was found (stage FnArgsFound); an earlier brace
\* group is not taken as the body.
C13_BodyAfterArgs ==
    [][(stage' = FnBodyFound /\ stage # FnBodyFound) =>
          (stage = FnArgsFound /\ IsBrace(input[pos]))]_vars

\* C14: after the scan the Original accumulator has the length and order of
\* the input and differs from it in at most one position, an identifier after
\* the function keyword, which is replaced by prefix+name; every other token
\* is copied unchanged.
C14_OriginalAccumulator ==
    ScanOver =>
        /\ Len(original) = Len(input)
        /\ LET changed == {i \in 1..Len(input) : original[i] # input[i]} IN
             /\ Cardinality(changed) <= 1
             /\ \A i \in changed :
                  /\ input[i].kind = "Ident"
                  /\ original[i].kind = "Ident"
                  /\ original[i].text = ORIGINAL_FUNC_PREFIX \o input[i].text
                  /\ \E j \in 1..(i - 1) : input[j] = Ident(s_fn)

C14_Witness ==
    /\ ScanOver /\ pc = "done"
    /\ input \in FunctionItems
    /\ Len(input) >= 6
    /\ original[2] = Ident(ORIGINAL_FUNC_PREFIX \o s_foo)
    /\ original[Len(original)] = BraceBody

\* C15: after the scan the Signature accumulator is exactly the input tokens
\* before the first top-level brace group, in order, the name unprefixed; it
\* holds neither that group nor anything after it.
C15_SignatureAccumulator ==
    ScanOver => signature = SubSeq(input, 1, FirstBrace(input) - 1)

C15_Witness ==
    /\ ScanOver /\ pc = "done"
    /\ FirstBrace(input) > 1
    /\ FirstBrace(input) < Len(input)
    /\ fn_orig_name # <<>>
    /\ Len(signature) = FirstBrace(input) - 1

\* the parameter tokens of the parse_args specification
ArgTokens == input[1].stream

IsNonEmpty(c) == c # <<>>
NonEmptyChunks(ps) == SelectSeq(Chunks(ps), IsNonEmpty)

\* what the claim says a chunk reduces to
ChunkEntry(c) ==
    IF c[Len(c)].text = s_self THEN s_self ELSE c[1].text

ChunkEntries(ps) ==
    [i \in 1..Len(NonEmptyChunks(ps)) |-> ChunkEntry(NonEmptyChunks(ps)[i])]

\* a comma met while the pending chunk is empty
CommaOnEmptyChunk(ps) ==
    \E i \in 1..Len(ps) : ps[i] = Comma /\ (i = 1 \/ ps[i - 1] = Comma)

\* C16 as stated: for every non-empty parameter token sequence parse_args
\* returns the ", "-join of one entry per non-empty comma-separated chunk.
C16_EveryNonEmptySequence ==
    (entry = "parse_args" /\ pc # "idle" /\ ArgTokens # <<>>) =>
        /\ pc = "done"
        /\ fn_args_string = join(ChunkEntries(ArgTokens), s_commaSpace)

\* C16: for every non-empty parameter token sequence on which parse_args does
\* not fail, it returns the ", "-join of one entry per comma-separated chunk in
\* order, "self" for a chunk whose last token is `self` and the first token's
\* text otherwise; it does not fail when no comma is met on an empty chunk.
C16_JoinOfChunkEntries ==
    (entry = "parse_args" /\ pc # "idle" /\ ArgTokens # <<>>
        /\ ~CommaOnEmptyChunk(ArgTokens)) =>
        /\ pc = "done"
        /\ Len(NonEmptyChunks(ArgTokens)) = Len(Chunks(ArgTokens))
        /\ fn_args_string = join(ChunkEntries(ArgTokens), s_commaSpace)

C16_Witness ==
    /\ entry = "parse_args" /\ pc = "done"
    /\ Len(Chunks(ArgTokens)) = 1
    /\ Chunks(ArgTokens)[1] = <<Punct(<<"&">>), Ident(s_self)>>
    /\ fn_args_string = s_self

FirstIdent(tokens, t) ==
    IF \E i \in 1..Len(tokens) : tokens[i] = Ident(t)
    THEN CHOOSE i \in 1..Len(tokens) :
            tokens[i] = Ident(t) /\ \A j \in 1..(i - 1) : tokens[j] # Ident(t)
    ELSE Len(tokens) + 1

\* C17: make_public returns the input unchanged when a `pub` comes before the
\* first `fn` or there is no `fn`; otherwise it returns the input with exactly
\* one `pub` put immediately before the first `fn` (a `pub` after the first
\* `fn` does not prevent that).
C17_MakePublicResult ==
    (entry = "make_public" /\ pc # "idle") =>
        LET f == FirstIdent(input, s_fn)
            p == FirstIdent(input, s_pub)
        IN  IF f > Len(input) \/ p < f
            THEN output = input
            ELSE output = SubSeq(input, 1, f - 1) \o <<Ident(s_pub)>>
                          \o SubSeq(input, f, Len(input))

C17_Witness ==
    /\ entry = "make_public" /\ pc = "once"
    /\ FirstIdent(input, s_fn) < FirstIdent(input, s_pub)
    /\ FirstIdent(input, s_pub) <= Len(input)
    /\ Len(output) = Len(input) + 1

\* the key and the value of a `key = value` element
OptionKey(e) == to_lowercase(Stripped(SubSeq(e, 1, KthChar(e, "=", 1) - 1)))
OptionValue(e) == to_lowercase(Stripped(SubSeq(e, KthChar(e, "=", 1) + 1, Len(e))))

\* neither blank at its ends nor holding an upper-case letter
TrimmedLowerCase(s) ==
    /\ \A i \in 1..Len(s) : \A n \in 1..26 : s[i] # UpperCase[n]
    /\ s # <<>> => (~Blank(s[1]) /\ ~Blank(s[Len(s)]))

\* C18: when parse_params succeeds every key and value of the options is
\* trimmed and lower-cased, the keys are those of the elements after the
\* first, and a key that occurs in several elements holds the value of the
\* last of them.
C18_OptionsMapping ==
    (entry = "parse_params" /\ pc = "done") =>
        LET n == NumElements(args) IN
        /\ DOMAIN params.options = {OptionKey(Element(args, k)) : k \in 2..n}
        /\ \A key \in DOMAIN params.options :
             TrimmedLowerCase(key) /\ TrimmedLowerCase(params.options[key])
        /\ \A k \in 2..n :
             (\A l \in (k + 1)..n :
                 OptionKey(Element(args, l)) # OptionKey(Element(args, k)))
             => params.options[OptionKey(Element(args, k))]
                    = OptionValue(Element(args, k))

C18_Witness ==
    /\ entry = "parse_params" /\ pc = "done"
    /\ NumElements(args) = 3
    /\ OptionKey(Element(args, 2)) = OptionKey(Element(args, 3))
    /\ OptionValue(Element(args, 2)) = <<>>
    /\ Element(args, 3) = <<"=", "M">>
    /\ params.options[OptionKey(Element(args, 3))] = <<"m">>

\* C19: parse_args fails exactly when a comma is met while the pending chunk
\* is empty (a leading comma or two adjacent commas); a single trailing comma
\* after a non-empty chunk neither fails nor adds an entry.
C19_FailsOnEmptyChunk ==
    (entry = "parse_args" /\ pc # "idle") =>
        /\ pc = "panic" <=> CommaOnEmptyChunk(ArgTokens)
        /\ pc = "done" =>
             LET commas == Cardinality({i \in 1..Len(ArgTokens) : ArgTokens[i] = Comma})
                 entries == IF fn_args_string = <<>> THEN 0
                            ELSE CountChar(fn_args_string, ",") + 1
             IN  IF ArgTokens # <<>> /\ ArgTokens[Len(ArgTokens)] = Comma
                 THEN entries = commas
                 ELSE entries = IF ArgTokens = <<>> THEN 0 ELSE commas + 1

C19_Witness ==
    /\ entry = "parse_args" /\ pc = "done"
    /\ Len(ArgTokens) = 3
    /\ ArgTokens[3] = Comma
    /\ fn_args_string = s_self

====
